---- MODULE Spec2Model ----
(***************************************************************************)
(* A model of the t9vm trie-walking engine (src/src/lib.rs): the packed    *)
(* control byte (Instr / Instruction), the Stack wrapper and the T9Vm      *)
(* state machine with its reset and next_word operations.                  *)
(*                                                                         *)
(* Bytes are numbers 0..255.  Stacks are sequences, bottom first.  The     *)
(* program counter and the priority addresses are 0-based, as in the code; *)
(* program.get(i) reads the (i+1)-th element of the sequence.              *)
(***************************************************************************)
EXTENDS Integers, Sequences, FiniteSets, TLC

(***************************************************************************)
(* Bounds of the model.                                                    *)
(***************************************************************************)
\* longest program of the exhaustively enumerated programs
MaxLen == 5

\* next_word is not called again once it has returned None this many times
\* since construction or the last reset
MaxNones == 2

\* tallest stack and largest drop count of the Stack::drop_n specification
MaxStack == 3

(***************************************************************************)
(* Instr: the control byte.                                                *)
(***************************************************************************)
\* the largest u8
U8Max == 255

\* the largest length from_len_instr accepts
LenMax == 31

INSTR_MASK == 7

LEN_MASK == 248

LEN_SHIFT == 3

\* x & INSTR_MASK for a u8 x: the low three bits
AndInstrMask(x) == x % (INSTR_MASK + 1)

\* x & LEN_MASK for a u8 x: the low three bits cleared
AndLenMask(x) == (x % 256) - (x % (255 - LEN_MASK + 1))

\* x >> LEN_SHIFT
ShrLenShift(x) == x \div (2 ^ LEN_SHIFT)

\* (x << LEN_SHIFT) as a u8
ShlLenShift(x) == (x * (2 ^ LEN_SHIFT)) % 256

Instructions ==
    { "S_NotWordNoChildrenNotLast", "T_NotWordNoChildrenIsLast",
      "U_NotWordHasChildrenNotLast", "V_NotWordHasChildrenIsLast",
      "W_IsWordNoChildrenNotLast", "X_IsWordNoChildrenIsLast",
      "Y_IsWordHasChildrenNotLast", "Z_IsWordHasChildrenIsLast" }

\* Instruction::to_u8
to_u8(i) ==
    CASE i = "S_NotWordNoChildrenNotLast" -> 0
      [] i = "T_NotWordNoChildrenIsLast" -> 1
      [] i = "U_NotWordHasChildrenNotLast" -> 2
      [] i = "V_NotWordHasChildrenIsLast" -> 3
      [] i = "W_IsWordNoChildrenNotLast" -> 4
      [] i = "X_IsWordNoChildrenIsLast" -> 5
      [] i = "Y_IsWordHasChildrenNotLast" -> 6
      [] i = "Z_IsWordHasChildrenIsLast" -> 7

\* the opcode match taken on the whole byte instead of its low three bits
InstructionFrom_unmasked(val) ==
    CASE val = 0 -> "S_NotWordNoChildrenNotLast"
      [] val = 1 -> "T_NotWordNoChildrenIsLast"
      [] val = 2 -> "U_NotWordHasChildrenNotLast"
      [] val = 3 -> "V_NotWordHasChildrenIsLast"
      [] val = 4 -> "W_IsWordNoChildrenNotLast"
      [] val = 5 -> "X_IsWordNoChildrenIsLast"
      [] val = 6 -> "Y_IsWordHasChildrenNotLast"
      [] val = 7 -> "Z_IsWordHasChildrenIsLast"
      [] OTHER -> "unreachable"

\* impl From<u8> for Instruction; "unreachable" stands for the unreachable!() arm
InstructionFrom(val) ==
    CASE AndInstrMask(val) = 0 -> "S_NotWordNoChildrenNotLast"
      [] AndInstrMask(val) = 1 -> "T_NotWordNoChildrenIsLast"
      [] AndInstrMask(val) = 2 -> "U_NotWordHasChildrenNotLast"
      [] AndInstrMask(val) = 3 -> "V_NotWordHasChildrenIsLast"
      [] AndInstrMask(val) = 4 -> "W_IsWordNoChildrenNotLast"
      [] AndInstrMask(val) = 5 -> "X_IsWordNoChildrenIsLast"
      [] AndInstrMask(val) = 6 -> "Y_IsWordHasChildrenNotLast"
      [] AndInstrMask(val) = 7 -> "Z_IsWordHasChildrenIsLast"
      [] OTHER -> "unreachable"

\* from_len_instr that forgets to shift the length into the high bits
from_len_instr_unshifted(len, i) ==
    LET ins  == AndInstrMask(to_u8(i))
        slen == AndLenMask(len)
    IN  ins + slen

\* Instr::from_len_instr (the assert!(len <= 31) is the caller's obligation)
from_len_instr(len, i) ==
    LET ins  == AndInstrMask(to_u8(i))
        slen == AndLenMask(ShlLenShift(len))
    IN  ins + slen

\* Instr::instr
instr(b) == InstructionFrom(b)

\* Instr::is_last
is_last(b) ==
    instr(b) \in { "T_NotWordNoChildrenIsLast", "V_NotWordHasChildrenIsLast",
                   "X_IsWordNoChildrenIsLast", "Z_IsWordHasChildrenIsLast" }

\* Instr::is_word
is_word(b) ==
    instr(b) \in { "W_IsWordNoChildrenNotLast", "X_IsWordNoChildrenIsLast",
                   "Y_IsWordHasChildrenNotLast", "Z_IsWordHasChildrenIsLast" }

\* Instr::has_children
has_children(b) ==
    instr(b) \in { "U_NotWordHasChildrenNotLast", "V_NotWordHasChildrenIsLast",
                   "Y_IsWordHasChildrenNotLast", "Z_IsWordHasChildrenIsLast" }

\* Instr::len_u8
len_u8(b) == ShrLenShift(AndLenMask(b))

\* Instr::len
len(b) == len_u8(b)

(***************************************************************************)
(* Stack<T>: a Vec<T>, modelled as a sequence with the top at the end.     *)
(***************************************************************************)
\* Stack::peek: the top element as a sequence of length 0 (None) or 1 (Some)
peek(s) == IF s = <<>> THEN <<>> ELSE <<s[Len(s)]>>

\* the stack without its top (Vec::pop on a non-empty vector)
Front(s) == SubSeq(s, 1, Len(s) - 1)

RECURSIVE drop_n(_, _)
\* Stack::drop_n: pops one element per iteration and returns Err at the
\* first pop of an empty vector; the elements popped before stay popped
drop_n(s, n) ==
    IF n = 0 THEN [ok |-> TRUE, stack |-> s]
    ELSE IF s = <<>> THEN [ok |-> FALSE, stack |-> s]
    ELSE drop_n(Front(s), n - 1)

(***************************************************************************)
(* core::str::from_utf8, as far as next_word uses it: is the byte string   *)
(* well-formed UTF-8?                                                      *)
(***************************************************************************)
RECURSIVE utf8_from(_, _)
\* the bytes of s from index i on (1-based) are a sequence of UTF-8 scalars
utf8_from(s, i) ==
    IF i > Len(s) THEN TRUE
    ELSE
      LET b == s[i]
          In(j, lo, hi) == j <= Len(s) /\ s[j] >= lo /\ s[j] <= hi
          Cont(j) == In(j, 128, 191)
      IN  CASE b <= 127 -> utf8_from(s, i + 1)
            [] b >= 194 /\ b <= 223 -> Cont(i + 1) /\ utf8_from(s, i + 2)
            [] b = 224 -> In(i + 1, 160, 191) /\ Cont(i + 2) /\ utf8_from(s, i + 3)
            [] (b >= 225 /\ b <= 236) \/ b = 238 \/ b = 239 ->
                   Cont(i + 1) /\ Cont(i + 2) /\ utf8_from(s, i + 3)
            [] b = 237 -> In(i + 1, 128, 159) /\ Cont(i + 2) /\ utf8_from(s, i + 3)
            [] b = 240 ->
                   In(i + 1, 144, 191) /\ Cont(i + 2) /\ Cont(i + 3) /\ utf8_from(s, i + 4)
            [] b >= 241 /\ b <= 243 ->
                   Cont(i + 1) /\ Cont(i + 2) /\ Cont(i + 3) /\ utf8_from(s, i + 4)
            [] b = 244 ->
                   In(i + 1, 128, 143) /\ Cont(i + 2) /\ Cont(i + 3) /\ utf8_from(s, i + 4)
            [] OTHER -> FALSE

from_utf8_ok(s) == utf8_from(s, 1)

(***************************************************************************)
(* T9Vm.  The engine's fields are the variables control_stack, word_stack, *)
(* prio_addr_stack, program_ctr and program; the operators below work on a *)
(* record vm of the four mutable fields and on the program p.              *)
(***************************************************************************)
\* Option<&str>, the return type of next_word
None == [some |-> FALSE, word |-> <<>>]

Some(w) == [some |-> TRUE, word |-> w]

\* get with the last element out of reach
get_short(p, i) == IF i + 1 < Len(p) THEN <<p[i + 1]>> ELSE <<>>

\* Vec::get(i) with a 0-based index: a sequence of length 0 (None) or 1 (Some)
get(p, i) == IF i < Len(p) THEN <<p[i + 1]>> ELSE <<>>

\* pop_cstack without the pop of the popped word node's priority address
pop_cstack_keep_prio(vm) ==
    IF vm.control_stack = <<>>
    THEN [vm |-> vm, val |-> 0, panic |-> "control_stack.pop"]
    ELSE
      LET val == vm.control_stack[Len(vm.control_stack)]
          vm1 == [vm EXCEPT !.control_stack = Front(@)]
          d   == drop_n(vm1.word_stack, len(val))
          vm2 == [vm1 EXCEPT !.word_stack = d.stack]
      IN  IF ~d.ok
          THEN [vm |-> vm2, val |-> val, panic |-> "word_stack.drop_n"]
          ELSE [vm |-> vm2, val |-> val, panic |-> ""]

\* pop_cstack without the drop_n of the popped node's payload
pop_cstack_keep_payload(vm) ==
    IF vm.control_stack = <<>>
    THEN [vm |-> vm, val |-> 0, panic |-> "control_stack.pop"]
    ELSE
      LET val == vm.control_stack[Len(vm.control_stack)]
          vm1 == [vm EXCEPT !.control_stack = Front(@)]
      IN  IF ~is_word(val)
          THEN [vm |-> vm1, val |-> val, panic |-> ""]
          ELSE IF vm1.prio_addr_stack = <<>>
          THEN [vm |-> vm1, val |-> val, panic |-> "prio_addr_stack.pop"]
          ELSE [vm |-> [vm1 EXCEPT !.prio_addr_stack = Front(@)],
                val |-> val, panic |-> ""]

\* T9Vm::pop_cstack.  panic names the unwrap() that failed, "" when none did.
pop_cstack(vm) ==
    IF vm.control_stack = <<>>
    THEN [vm |-> vm, val |-> 0, panic |-> "control_stack.pop"]
    ELSE
      LET val == vm.control_stack[Len(vm.control_stack)]
          vm1 == [vm EXCEPT !.control_stack = Front(@)]
          d   == drop_n(vm1.word_stack, len(val))
          vm2 == [vm1 EXCEPT !.word_stack = d.stack]
      IN  IF ~d.ok
          THEN [vm |-> vm2, val |-> val, panic |-> "word_stack.drop_n"]
          ELSE IF ~is_word(val)
          THEN [vm |-> vm2, val |-> val, panic |-> ""]
          ELSE IF vm2.prio_addr_stack = <<>>
          THEN [vm |-> vm2, val |-> val, panic |-> "prio_addr_stack.pop"]
          ELSE [vm |-> [vm2 EXCEPT !.prio_addr_stack = Front(@)],
                val |-> val, panic |-> ""]

RECURSIVE pop_last(_)
\* pop_last that rewinds the program counter when the control stack empties
pop_last_rewind(vm) ==
    IF peek(vm.control_stack) = <<>>
    THEN [vm |-> [vm EXCEPT !.program_ctr = 0], exit |-> "backtrack_empty"]
    ELSE
      LET r == pop_cstack(vm)
      IN  IF r.panic # ""
          THEN [vm |-> r.vm, exit |-> "panic_unwrap"]
          ELSE IF is_last(peek(vm.control_stack)[1])
          THEN pop_last(r.vm)
          ELSE [vm |-> r.vm, exit |-> ""]

\* pop_last without the final pop_cstack of line 248
pop_last_keeps_parent(vm) ==
    IF peek(vm.control_stack) = <<>>
    THEN [vm |-> vm, exit |-> "backtrack_empty"]
    ELSE IF ~is_last(peek(vm.control_stack)[1])
    THEN [vm |-> vm, exit |-> ""]
    ELSE
      LET r == pop_cstack(vm)
      IN  IF r.panic # ""
          THEN [vm |-> r.vm, exit |-> "panic_unwrap"]
          ELSE pop_last(r.vm)

\* next_word, lines 243-248: "while peek.last: pop", then "pop one".
\* exit is "" when the call goes on to the push + execute loop.
pop_last(vm) ==
    IF peek(vm.control_stack) = <<>>
    THEN [vm |-> vm, exit |-> "backtrack_empty"]
    ELSE
      LET r == pop_cstack(vm)
      IN  IF r.panic # ""
          THEN [vm |-> r.vm, exit |-> "panic_unwrap"]
          ELSE IF is_last(peek(vm.control_stack)[1])
          THEN pop_last(r.vm)
          ELSE [vm |-> r.vm, exit |-> ""]

\* backtrack without the "if !i.has_children()" of line 234
backtrack_pops_parent(vm) ==
    IF peek(vm.control_stack) = <<>>
    THEN [vm |-> vm, exit |-> ""]
    ELSE
      LET r == pop_cstack(vm)
      IN  IF r.panic # ""
          THEN [vm |-> r.vm, exit |-> "panic_unwrap"]
          ELSE IF is_last(r.val)
          THEN pop_last(r.vm)
          ELSE [vm |-> r.vm, exit |-> ""]

\* backtrack without the "if let Some(i) = peek()" of line 233
backtrack_unguarded(vm) ==
    IF peek(vm.control_stack) # <<>> /\ has_children(peek(vm.control_stack)[1])
    THEN [vm |-> vm, exit |-> ""]
    ELSE
      LET r == pop_cstack(vm)
      IN  IF r.panic # ""
          THEN [vm |-> r.vm, exit |-> "panic_unwrap"]
          ELSE IF is_last(r.val)
          THEN pop_last(r.vm)
          ELSE [vm |-> r.vm, exit |-> ""]

\* next_word, lines 233-251: the backtrack step
backtrack(vm) ==
    IF peek(vm.control_stack) = <<>>
    THEN [vm |-> vm, exit |-> ""]
    ELSE IF has_children(peek(vm.control_stack)[1])
    THEN [vm |-> vm, exit |-> ""]
    ELSE
      LET r == pop_cstack(vm)
      IN  IF r.panic # ""
          THEN [vm |-> r.vm, exit |-> "panic_unwrap"]
          ELSE IF is_last(r.val)
          THEN pop_last(r.vm)
          ELSE [vm |-> r.vm, exit |-> ""]

RECURSIVE push_payload(_, _, _)
\* push_payload that starts one byte early, at the byte before the payload
push_payload_early(vm, p, n) ==
    IF n = 0 THEN [vm |-> vm, ok |-> TRUE]
    ELSE IF get(p, vm.program_ctr) = <<>>
    THEN [vm |-> vm, ok |-> FALSE]
    ELSE push_payload([vm EXCEPT !.word_stack = Append(@, get(p, vm.program_ctr - 1)[1]),
                                 !.program_ctr = @ + 1], p, n - 1)

\* push_payload that moves the cursor over the payload without pushing it
push_payload_skips(vm, p, n) ==
    IF n = 0 THEN [vm |-> vm, ok |-> TRUE]
    ELSE IF get(p, vm.program_ctr) = <<>>
    THEN [vm |-> vm, ok |-> FALSE]
    ELSE push_payload([vm EXCEPT !.program_ctr = @ + 1], p, n - 1)

\* next_word, lines 272-277: push n payload bytes; ok is FALSE when
\* program.get ran past the end (the bytes pushed before stay pushed)
push_payload(vm, p, n) ==
    IF n = 0 THEN [vm |-> vm, ok |-> TRUE]
    ELSE IF get(p, vm.program_ctr) = <<>>
    THEN [vm |-> vm, ok |-> FALSE]
    ELSE push_payload([vm EXCEPT !.word_stack = Append(@, get(p, vm.program_ctr)[1]),
                                 !.program_ctr = @ + 1], p, n - 1)

\* a word is yielded only at a node without children
yields_leaf(cur_instr) == is_word(cur_instr) /\ ~has_children(cur_instr)

\* next_word, line 279: does the node just pushed end the call with a word?
yields(cur_instr) == is_word(cur_instr)

RECURSIVE execute(_, _)
\* next_word, lines 254-288: the push + execute loop
execute(vm, p) ==
    IF get(p, vm.program_ctr) = <<>>
    THEN [vm |-> vm, ret |-> None, exit |-> "fetch_none"]
    ELSE
      LET cur_instr == get(p, vm.program_ctr)[1]
          vm1 == [vm EXCEPT !.control_stack = Append(@, cur_instr),
                            !.program_ctr = @ + 1]
          vm2 == IF is_word(cur_instr)
                 THEN [vm1 EXCEPT !.prio_addr_stack = Append(@, vm1.program_ctr),
                                  !.program_ctr = @ + 1]
                 ELSE vm1
          pl  == push_payload(vm2, p, len(cur_instr))
      IN  IF ~pl.ok
          THEN [vm |-> pl.vm, ret |-> None, exit |-> "payload_none"]
          ELSE IF ~yields(cur_instr)
          THEN execute(pl.vm, p)
          ELSE IF from_utf8_ok(pl.vm.word_stack)
          THEN [vm |-> pl.vm, ret |-> Some(pl.vm.word_stack), exit |-> "word"]
          ELSE [vm |-> pl.vm, ret |-> None, exit |-> "utf8_err"]

\* T9Vm::next_word as built without debug assertions.
\* exit names the place the call left from:
\*   "word"             line 286, break Some(word)
\*   "backtrack_empty"  line 243, peek()? on the emptied control stack
\*   "fetch_none"       line 255, program.get(program_ctr)? for a control byte
\*   "payload_none"     line 273, program.get(program_ctr)? for a payload byte
\*   "utf8_err"         line 284, from_utf8 failed
\*   "panic_unwrap"     lines 214-217, an unwrap() of pop_cstack panicked
next_word(vm, p) ==
    LET b == backtrack(vm)
    IN  IF b.exit # ""
        THEN [vm |-> b.vm, ret |-> None, exit |-> b.exit]
        ELSE execute(b.vm, p)

\* The outcomes of one next_word call over the builds: the debug_assert!(false)
\* of line 283 panics in a build with debug assertions ("panic_utf8") and is
\* absent in a build without.
next_word_outcomes(vm, p) ==
    LET r == next_word(vm, p)
    IN  IF r.exit = "utf8_err"
        THEN {r, [r EXCEPT !.exit = "panic_utf8"]}
        ELSE {r}

\* the exits that are panics
Panics == {"panic_unwrap", "panic_utf8"}

(***************************************************************************)
(* The programs the engine is run on.                                      *)
(***************************************************************************)
\* test::PRIO
PRIO == 0

\* test::u .. test::z
u(n) == from_len_instr(n, "U_NotWordHasChildrenNotLast")

v(n) == from_len_instr(n, "V_NotWordHasChildrenIsLast")

w(n) == from_len_instr(n, "W_IsWordNoChildrenNotLast")

x(n) == from_len_instr(n, "X_IsWordNoChildrenIsLast")

y(n) == from_len_instr(n, "Y_IsWordHasChildrenNotLast")

z(n) == from_len_instr(n, "Z_IsWordHasChildrenIsLast")

\* ASCII codes of the letters DEMO uses
Ch(c) ==
    CASE c = "a" -> 97 [] c = "b" -> 98 [] c = "c" -> 99 [] c = "d" -> 100
      [] c = "e" -> 101 [] c = "f" -> 102 [] c = "i" -> 105 [] c = "l" -> 108
      [] c = "n" -> 110 [] c = "o" -> 111 [] c = "p" -> 112 [] c = "r" -> 114
      [] c = "s" -> 115 [] c = "t" -> 116 [] c = "_" -> 95

\* test::DEMO
DEMO ==
    <<y(1), PRIO, Ch("a")>> \o
    <<y(4), PRIO, Ch("a"), Ch("r"), Ch("o"), Ch("n")>> \o
    <<x(1), PRIO, Ch("s")>> \o
    <<y(1), PRIO, Ch("b")>> \o
    <<x(2), PRIO, Ch("l"), Ch("e")>> \o
    <<u(2), Ch("p"), Ch("p")>> \o
    <<y(2), PRIO, Ch("l"), Ch("e")>> \o
    <<w(2), PRIO, Ch("t"), Ch("s")>> \o
    <<x(1), PRIO, Ch("s")>> \o
    <<z(4), PRIO, Ch("n"), Ch("o"), Ch("t"), Ch("e")>> \o
    <<v(1), Ch("_")>> \o
    <<z(1), PRIO, Ch("a")>> \o
    <<z(1), PRIO, Ch("b")>> \o
    <<y(1), PRIO, Ch("c")>> \o
    <<x(1), PRIO, Ch("d")>> \o
    <<z(1), PRIO, Ch("e")>> \o
    <<x(1), PRIO, Ch("f")>> \o
    <<x(1), PRIO, Ch("s")>> \o
    <<x(4), PRIO, Ch("b"), Ch("i"), Ch("t"), Ch("e")>>

\* The byte values of the enumerated programs.  As control bytes:
\*   0 = S,len 0    2 = U,len 0    4 = W,len 0    5 = X,len 0
\*   7 = Z,len 0   13 = X,len 1  169 = T,len 21
\* As text, 0..13 are ASCII and 169 is a lone UTF-8 continuation byte.
Alphabet == {0, 2, 4, 5, 7, 13, 169}

\* Programs that need bytes or lengths outside the enumeration:
\*   DEMO;
\*   U+00E9 spelled over two nodes (0xC3 | 0xA9), and in one node;
\*   the words "a", "" as siblings;  the words "ab", "a" with "a" a later sibling;
\*   a chain of V nodes;  a V node between Z nodes
Corpus ==
    { DEMO,
      <<z(1), PRIO, 195, x(1), PRIO, 169>>,
      <<x(2), PRIO, 195, 169>>,
      <<w(1), PRIO, 97, x(0), PRIO>>,
      <<u(1), 97, x(1), PRIO, 98, x(1), PRIO, 97>>,
      <<v(0), v(0), x(0), PRIO>>,
      <<y(0), PRIO, v(1), 97, z(0), PRIO, x(1), PRIO, 98, x(0), PRIO>> }

Programs == UNION { [1..n -> Alphabet] : n \in 0..MaxLen } \cup Corpus

(***************************************************************************)
(* The trie a program encodes, read off the byte format by recursive       *)
(* descent: node = control byte, priority byte if it terminates a word,    *)
(* len payload bytes, then its children if it has any, then its next       *)
(* sibling unless it is the last.                                          *)
(***************************************************************************)
RECURSIVE ParseLevel(_, _, _, _)
\* The sibling chain that starts at the 0-based index i, below a node that
\* spells prefix and whose word-terminating ancestors (itself included) spell
\* anc.  ok: the chain is a well-formed encoding; next: the index after it;
\* entries: its word-terminating nodes in pre-order, each with its word and
\* the words of its proper word-terminating ancestors.
ParseLevel(p, i, prefix, anc) ==
    IF i >= Len(p) THEN [ok |-> FALSE, next |-> i, entries |-> <<>>]
    ELSE
      LET b     == p[i + 1]
          from  == i + 1 + (IF is_word(b) THEN 1 ELSE 0)
          to    == from + len(b)
          spelt == prefix \o SubSeq(p, from + 1, to)
          own   == IF is_word(b) THEN <<[word |-> spelt, anc |-> anc]>> ELSE <<>>
          kids  == IF has_children(b)
                   THEN ParseLevel(p, to, spelt,
                                   IF is_word(b) THEN Append(anc, spelt) ELSE anc)
                   ELSE [ok |-> TRUE, next |-> to, entries |-> <<>>]
          rest  == IF is_last(b)
                   THEN [ok |-> TRUE, next |-> kids.next, entries |-> <<>>]
                   ELSE ParseLevel(p, kids.next, prefix, anc)
      IN  IF ~is_word(b) /\ ~has_children(b)
          THEN [ok |-> FALSE, next |-> i, entries |-> <<>>]
          ELSE IF to > Len(p)
          THEN [ok |-> FALSE, next |-> i, entries |-> <<>>]
          ELSE IF ~kids.ok
          THEN [ok |-> FALSE, next |-> i, entries |-> <<>>]
          ELSE IF ~rest.ok
          THEN [ok |-> FALSE, next |-> i, entries |-> <<>>]
          ELSE [ok |-> TRUE, next |-> rest.next,
                entries |-> own \o kids.entries \o rest.entries]

RECURSIVE ParsePaths(_, _, _)
\* The same descent over a well-formed sibling chain that starts at the
\* 0-based index i below the nodes of path, keeping for every
\* word-terminating node, in pre-order, the nodes from its top-level ancestor
\* down to itself: each with its control byte (instr) and the index of that
\* byte (at).
ParsePaths(p, i, path) ==
    LET b    == p[i + 1]
        to   == i + 1 + (IF is_word(b) THEN 1 ELSE 0) + len(b)
        here == Append(path, [instr |-> b, at |-> i])
        own  == IF is_word(b) THEN <<here>> ELSE <<>>
        kids == IF has_children(b)
                THEN ParsePaths(p, to, here)
                ELSE [next |-> to, paths |-> <<>>]
        rest == IF is_last(b)
                THEN [next |-> kids.next, paths |-> <<>>]
                ELSE ParsePaths(p, kids.next, path)
    IN  [next |-> rest.next, paths |-> own \o kids.paths \o rest.paths]

\* The trie of p.  wf: the whole program is one top-level sibling chain, or
\* is empty; entries: its word-terminating nodes in pre-order; words: their
\* words; text: every word is valid UTF-8; paths: for each entry, the nodes
\* from the top level down to it.
Trie(p) ==
    LET t  == ParseLevel(p, 0, <<>>, <<>>)
        wf == p = <<>> \/ (t.ok /\ t.next = Len(p))
        es == IF wf THEN t.entries ELSE <<>>
    IN  [wf |-> wf, entries |-> es,
         words |-> [k \in 1..Len(es) |-> es[k].word],
         text |-> \A k \in 1..Len(es) : from_utf8_ok(es[k].word),
         paths |-> IF wf /\ p # <<>> THEN ParsePaths(p, 0, <<>>).paths ELSE <<>>]

RECURSIVE WordBytes(_, _)
\* The number of control bytes that terminate a word, by a flat scan of the
\* nodes from the 0-based index i on.
WordBytes(p, i) ==
    IF i >= Len(p) THEN 0
    ELSE (IF is_word(p[i + 1]) THEN 1 ELSE 0)
         + WordBytes(p, i + 1 + (IF is_word(p[i + 1]) THEN 1 ELSE 0) + len(p[i + 1]))

(***************************************************************************)
(* The state machine.                                                      *)
(***************************************************************************)
VARIABLES
    program,          \* T9Vm.program
    control_stack,    \* T9Vm.control_stack
    word_stack,       \* T9Vm.word_stack
    prio_addr_stack,  \* T9Vm.prio_addr_stack
    program_ctr,      \* T9Vm.program_ctr
    panicked,         \* a next_word call has panicked: the engine is gone
    rets,             \* what the next_word calls since construction or reset returned
    exits,            \* where each of those calls left next_word
    last_op,          \* the last operation on the engine, see Ops
    trie,             \* auxiliary: Trie(program), fixed at construction
    stack,            \* a Stack<u8> on its own, for the Stack operations
    stack_op,         \* the last operation on it: its name, argument, result
                      \* and the contents before it
    codec             \* the last Instr conversion: its name, inputs and results

vars == <<program, control_stack, word_stack, prio_addr_stack, program_ctr,
          panicked, rets, exits, last_op, trie, stack, stack_op, codec>>

vm_vars == <<program, control_stack, word_stack, prio_addr_stack, program_ctr,
             panicked, rets, exits, last_op, trie>>

stack_vars == <<stack, stack_op>>

\* the engine's mutable fields as a record
Vm ==
    [control_stack |-> control_stack, word_stack |-> word_stack,
     prio_addr_stack |-> prio_addr_stack, program_ctr |-> program_ctr]

\* test::smoke, lines 390-396: the engine as constructed
FreshVm ==
    [control_stack |-> <<>>, word_stack |-> <<>>,
     prio_addr_stack |-> <<>>, program_ctr |-> 0]

\* no Instr conversion yet
NoConv == [name |-> "new"]

\* no Stack operation yet
NoOp == [name |-> "new", n |-> 0, ok |-> TRUE, before |-> <<>>]

\* The values of last_op: the engine is as constructed; the last operation
\* was next_word; it was reset, called before any next_word, during the walk,
\* or after a next_word that returned None.
Ops == {"new", "next_word", "reset_unwalked", "reset_walking", "reset_after_none"}

ResetOps == {"reset_unwalked", "reset_walking", "reset_after_none"}

\* the value of last_op after a reset in the current state
ResetOp ==
    IF exits = <<>> THEN "reset_unwalked"
    ELSE IF \E k \in 1..Len(rets) : ~rets[k].some THEN "reset_after_none"
    ELSE "reset_walking"

NoneCount(rs) == Cardinality({i \in 1..Len(rs) : ~rs[i].some})

Init ==
    /\ program \in Programs
    /\ control_stack = FreshVm.control_stack
    /\ word_stack = FreshVm.word_stack
    /\ prio_addr_stack = FreshVm.prio_addr_stack
    /\ program_ctr = FreshVm.program_ctr
    /\ panicked = FALSE
    /\ rets = <<>>
    /\ exits = <<>>
    /\ last_op = "new"
    /\ trie = Trie(program)
    /\ stack = <<>>
    /\ stack_op = NoOp
    /\ codec = NoConv

\* one call of T9Vm::next_word
NextWord ==
    /\ ~panicked
    /\ NoneCount(rets) < MaxNones
    /\ \E r \in next_word_outcomes(Vm, program) :
         /\ control_stack' = r.vm.control_stack
         /\ word_stack' = r.vm.word_stack
         /\ prio_addr_stack' = r.vm.prio_addr_stack
         /\ program_ctr' = r.vm.program_ctr
         /\ panicked' = (r.exit \in Panics)
         /\ rets' = IF r.exit \in Panics THEN rets ELSE Append(rets, r.ret)
         /\ exits' = Append(exits, r.exit)
    /\ last_op' = "next_word"
    /\ UNCHANGED <<program, trie, stack_vars, codec>>

\* reset that leaves the program counter where it is
Reset_keep_ctr ==
    /\ ~panicked
    /\ control_stack' = <<>>
    /\ word_stack' = <<>>
    /\ prio_addr_stack' = <<>>
    /\ rets' = <<>>
    /\ exits' = <<>>
    /\ last_op' = ResetOp
    /\ UNCHANGED <<program, program_ctr, panicked, trie, stack_vars, codec>>

\* one call of T9Vm::reset
Reset ==
    /\ ~panicked
    /\ control_stack' = <<>>
    /\ word_stack' = <<>>
    /\ prio_addr_stack' = <<>>
    /\ program_ctr' = 0
    /\ rets' = <<>>
    /\ exits' = <<>>
    /\ last_op' = ResetOp
    /\ UNCHANGED <<program, panicked, trie, stack_vars, codec>>

Next == NextWord \/ Reset

Spec == Init /\ [][Next]_vars

(***************************************************************************)
(* A Stack<u8> driven directly through its operations.                     *)
(***************************************************************************)
StackElems == {1, 2}

InitStack ==
    /\ program = <<>>
    /\ control_stack = <<>>
    /\ word_stack = <<>>
    /\ prio_addr_stack = <<>>
    /\ program_ctr = 0
    /\ panicked = FALSE
    /\ rets = <<>>
    /\ exits = <<>>
    /\ last_op = "new"
    /\ trie = Trie(program)
    /\ stack = <<>>
    /\ stack_op = NoOp
    /\ codec = NoConv

\* Stack::push
StackPush ==
    /\ Len(stack) < MaxStack
    /\ \E t \in StackElems :
         /\ stack' = Append(stack, t)
         /\ stack_op' = [name |-> "push", n |-> t, ok |-> TRUE, before |-> stack]
    /\ UNCHANGED <<vm_vars, codec>>

\* Stack::pop
StackPop ==
    /\ stack' = IF stack = <<>> THEN stack ELSE Front(stack)
    /\ stack_op' = [name |-> "pop", n |-> 0, ok |-> stack # <<>>, before |-> stack]
    /\ UNCHANGED <<vm_vars, codec>>

\* Stack::drop_n
StackDropN ==
    /\ \E n \in 0..(MaxStack + 1) :
         /\ stack' = drop_n(stack, n).stack
         /\ stack_op' = [name |-> "drop_n", n |-> n, ok |-> drop_n(stack, n).ok,
                         before |-> stack]
    /\ UNCHANGED <<vm_vars, codec>>

\* Stack::clear
StackClear ==
    /\ stack' = <<>>
    /\ stack_op' = [name |-> "clear", n |-> 0, ok |-> TRUE, before |-> stack]
    /\ UNCHANGED <<vm_vars, codec>>

NextStack == StackPush \/ StackPop \/ StackDropN \/ StackClear

SpecStack == InitStack /\ [][NextStack]_vars

(***************************************************************************)
(* The Instr conversions driven directly: a control byte is built from     *)
(* every length and opcode, and every byte is taken apart.                 *)
(***************************************************************************)
InitCodec == InitStack

\* Instr::from_len_instr(l, i), within its assert
InstrEncode ==
    /\ \E l \in 0..LenMax, i \in Instructions :
         codec' = [name |-> "from_len_instr", len_in |-> l, instr_in |-> i,
                   byte |-> from_len_instr(l, i)]
    /\ UNCHANGED <<vm_vars, stack_vars>>

\* Instr::from(b), then every accessor of the Instr
InstrDecode ==
    /\ \E b \in 0..U8Max :
         codec' = [name |-> "from", byte |-> b, instr |-> instr(b),
                   len |-> len(b), len_u8 |-> len_u8(b),
                   is_word |-> is_word(b), has_children |-> has_children(b),
                   is_last |-> is_last(b)]
    /\ UNCHANGED <<vm_vars, stack_vars>>

NextCodec == InstrEncode \/ InstrDecode

SpecCodec == InitCodec /\ [][NextCodec]_vars

\* the index of the first None among the returned values, Len + 1 when none
FirstNone(rs) ==
    IF \E k \in 1..Len(rs) : ~rs[k].some
    THEN CHOOSE k \in 1..Len(rs) : ~rs[k].some /\ \A j \in 1..(k - 1) : rs[j].some
    ELSE Len(rs) + 1

\* the words returned before the first None
WordsToFirstNone(rs) == [k \in 1..(FirstNone(rs) - 1) |-> rs[k].word]

\* a None has been returned
SawNone(rs) == FirstNone(rs) <= Len(rs)

IsPrefixOf(a, b) == Len(a) <= Len(b) /\ a = SubSeq(b, 1, Len(a))

\* test::smoke, lines 370-388: expected
DEMO_expected ==
    << <<Ch("a")>>,
       <<Ch("a"), Ch("a"), Ch("r"), Ch("o"), Ch("n")>>,
       <<Ch("a"), Ch("a"), Ch("r"), Ch("o"), Ch("n"), Ch("s")>>,
       <<Ch("a"), Ch("b")>>,
       <<Ch("a"), Ch("b"), Ch("l"), Ch("e")>>,
       <<Ch("a"), Ch("p"), Ch("p"), Ch("l"), Ch("e")>>,
       <<Ch("a"), Ch("p"), Ch("p"), Ch("l"), Ch("e"), Ch("t"), Ch("s")>>,
       <<Ch("a"), Ch("p"), Ch("p"), Ch("l"), Ch("e"), Ch("s")>>,
       <<Ch("a"), Ch("p"), Ch("p"), Ch("n"), Ch("o"), Ch("t"), Ch("e")>>,
       <<Ch("a"), Ch("p"), Ch("p"), Ch("n"), Ch("o"), Ch("t"), Ch("e"), Ch("_"), Ch("a")>>,
       <<Ch("a"), Ch("p"), Ch("p"), Ch("n"), Ch("o"), Ch("t"), Ch("e"), Ch("_"), Ch("a"), Ch("b")>>,
       <<Ch("a"), Ch("p"), Ch("p"), Ch("n"), Ch("o"), Ch("t"), Ch("e"), Ch("_"), Ch("a"), Ch("b"), Ch("c")>>,
       <<Ch("a"), Ch("p"), Ch("p"), Ch("n"), Ch("o"), Ch("t"), Ch("e"), Ch("_"), Ch("a"), Ch("b"), Ch("c"), Ch("d")>>,
       <<Ch("a"), Ch("p"), Ch("p"), Ch("n"), Ch("o"), Ch("t"), Ch("e"), Ch("_"), Ch("a"), Ch("b"), Ch("e")>>,
       <<Ch("a"), Ch("p"), Ch("p"), Ch("n"), Ch("o"), Ch("t"), Ch("e"), Ch("_"), Ch("a"), Ch("b"), Ch("e"), Ch("f")>>,
       <<Ch("a"), Ch("s")>>,
       <<Ch("b"), Ch("i"), Ch("t"), Ch("e")>> >>

(***************************************************************************)
(* C1.  Ordering.                                                          *)
(***************************************************************************)
\* the walk so far agrees with the trie t of the program, and is the whole
\* trie once a None has been returned
WalkIsTrie(t) ==
    LET ws == WordsToFirstNone(rets)
    IN  /\ ~panicked
        /\ IsPrefixOf(ws, t.words)
        /\ SawNone(rets) => ws = t.words
        /\ (SawNone(rets) /\ program = DEMO) => ws = DEMO_expected

\* C1 as stated: for every well-formed program (accurate has-descendants
\* flags, the last sibling of each level and only it marked is-last, no
\* opcode 000/001, no truncated node) the words returned up to the first
\* end-of-sequence are the words of the trie in pre-order, and those of DEMO
\* are the seventeen words of the smoke test.
C1_AsStated == trie.wf => WalkIsTrie(trie)

\* C1 amended: the same for every well-formed program all of whose words
\* are valid UTF-8.
C1_Ordering == (trie.wf /\ trie.text) => WalkIsTrie(trie)

\* a complete walk of a well-formed program of several words, among them a
\* word below another, and the complete walk of DEMO
C1_Witness ==
    /\ trie.wf /\ trie.text
    /\ SawNone(rets)
    /\ Len(trie.words) >= 3
    /\ \E k \in 1..Len(trie.entries) : trie.entries[k].anc # <<>>
    /\ program # DEMO

C1_WitnessDemo == program = DEMO /\ SawNone(rets) /\ FirstNone(rets) = 18

(***************************************************************************)
(* C2.  One word per word-terminating control byte.                        *)
(***************************************************************************)
\* the words returned so far do not outnumber the word-terminating control
\* bytes, and equal them in number once a None has been returned
CountIsWordBytes ==
    /\ ~panicked
    /\ FirstNone(rets) - 1 <= WordBytes(program, 0)
    /\ SawNone(rets) => FirstNone(rets) - 1 = WordBytes(program, 0)

\* C2 as stated: for every well-formed program the number of calls that
\* return a word before the first end-of-sequence is the number of control
\* bytes with a terminates-word opcode (100, 101, 110, 111).
C2_AsStated == trie.wf => CountIsWordBytes

\* C2 amended: the same for every well-formed program all of whose words
\* are valid UTF-8.
C2_Count == (trie.wf /\ trie.text) => CountIsWordBytes

\* a complete walk of a well-formed program with two word nodes below a
\* node that terminates no word
C2_Witness ==
    /\ trie.wf /\ trie.text
    /\ SawNone(rets)
    /\ FirstNone(rets) = 3
    /\ ~is_word(program[1])

(***************************************************************************)
(* C7.  Words before their extensions.                                     *)
(***************************************************************************)
IsProperPrefixOf(a, b) == Len(a) < Len(b) /\ a = SubSeq(b, 1, Len(a))

\* the word a was returned by one of the first n calls
ReturnedWithin(a, n) == \E j \in 1..n : rets[j].some /\ rets[j].word = a

\* C7 as stated: for every well-formed program and every word w returned,
\* every word of the trie that is a proper byte-prefix of w was returned by
\* an earlier call.
C7_AsStated ==
    LET t == trie
    IN  t.wf =>
          \A k \in 1..Len(rets) : \A e \in 1..Len(t.words) :
             (rets[k].some /\ IsProperPrefixOf(t.words[e], rets[k].word))
                => ReturnedWithin(t.words[e], k - 1)

\* C7 amended: for every well-formed program all of whose words are valid
\* UTF-8, the k-th call returns the word of the k-th word-terminating node in
\* pre-order, and the word of every word-terminating proper ancestor of that
\* node was returned by an earlier call.
C7_AncestorsFirst ==
    LET t == trie
    IN  (t.wf /\ t.text) =>
          \A k \in 1..Len(rets) :
             rets[k].some =>
               /\ k <= Len(t.entries)
               /\ rets[k].word = t.entries[k].word
               /\ \A a \in 1..Len(t.entries[k].anc) :
                     ReturnedWithin(t.entries[k].anc[a], k - 1)

\* a word has been returned whose node has two word-terminating ancestors
C7_Witness ==
    /\ trie.wf /\ trie.text
    /\ rets # <<>>
    /\ rets[Len(rets)].some
    /\ Len(rets) <= Len(trie.entries)
    /\ Len(trie.entries[Len(rets)].anc) >= 2

(***************************************************************************)
(* C3.  reset.                                                             *)
(***************************************************************************)
\* C3: reset, called in any reachable state (before the first next_word,
\* during the walk, after end-of-sequence), leaves the three stacks empty and
\* the cursor at 0 over the same program: the engine is, field for field, the
\* freshly constructed one, so the calls that follow return what a fresh
\* engine returns.
C3_ResetRestarts ==
    [][last_op' \in ResetOps =>
         /\ Vm' = FreshVm
         /\ program' = program
         /\ ~panicked'
         /\ rets' = <<>> /\ exits' = <<>>]_vars

\* the engine just reset in the middle of a walk that had returned words
C3_Witness == last_op = "reset_walking" /\ trie.wf /\ Len(trie.words) >= 2

\* the engine just reset after it had reported end-of-sequence
C3_WitnessAfterNone == last_op = "reset_after_none" /\ trie.wf /\ Len(trie.words) >= 2

(***************************************************************************)
(* C4.  End-of-sequence is permanent.                                      *)
(***************************************************************************)
\* the k-th call since construction or reset found the control stack
\* emptied by its backtracking
Exhausted(k) == exits[k] = "backtrack_empty"

\* C4 as stated: for every program buffer, once a call reports
\* end-of-sequence because backtracking emptied the control stack, no later
\* call returns a word or panics.
C4_AsStated ==
    \A i \in 1..Len(exits) : \A j \in (i + 1)..Len(exits) :
       Exhausted(i) => exits[j] \notin ({"word"} \cup Panics)

\* C4 amended: for every well-formed program, once a call reports
\* end-of-sequence because backtracking emptied the control stack, every
\* later call finds no byte at the cursor and returns None.
C4_Permanent ==
    trie.wf =>
      \A i \in 1..Len(exits) : \A j \in (i + 1)..Len(exits) :
         Exhausted(i) => exits[j] = "fetch_none" /\ rets[j] = None

\* a call after the one that exhausted a well-formed program
C4_Witness ==
    /\ trie.wf
    /\ Len(exits) >= 3
    /\ Exhausted(Len(exits) - 1)

(***************************************************************************)
(* C5.  Opcodes 000 and 001.                                               *)
(***************************************************************************)
\* C5: a control byte with opcode 000 or 001 that the traversal reads as a
\* node descriptor is reported as malformed and is never pushed onto the
\* control stack as if it were a node.
C5_InvalidOpcodeRejected ==
    \A k \in 1..Len(control_stack) :
       instr(control_stack[k]) \notin
          {"S_NotWordNoChildrenNotLast", "T_NotWordNoChildrenIsLast"}

(***************************************************************************)
(* C6.  Truncated nodes.                                                   *)
(***************************************************************************)
\* C6: a call that runs past the end of the program inside a node returns
\* something other than the None of normal exhaustion when a payload byte is
\* absent, and no node is taken for a word (its priority address recorded)
\* when its priority byte is absent.
C6_TruncationDistinct ==
    /\ \A k \in 1..Len(rets) : exits[k] = "payload_none" => rets[k] # None
    /\ \A k \in 1..Len(prio_addr_stack) : prio_addr_stack[k] < Len(program)

(***************************************************************************)
(* C8.  Bounded output.                                                    *)
(***************************************************************************)
WordCount(rs) == Cardinality({k \in 1..Len(rs) : rs[k].some})

C9_EmptyProgram ==
    (program = <<>> /\ exits # <<>>) =>
      /\ exits[1] = "fetch_none"
      /\ rets[1] = None
      /\ Vm = FreshVm

\* the state after the first call on the empty program
C9_Witness == program = <<>> /\ Len(rets) = 1

(***************************************************************************)
(* C10.  Stack::drop_n.                                                    *)
(***************************************************************************)
\* C10: drop_n(n) on a stack of fewer than n elements fails and leaves the
\* stack as it was; on a stack of n elements or more it removes the top n
\* and leaves the rest.
C10_DropN ==
    stack_op.name = "drop_n" =>
      IF stack_op.n > Len(stack_op.before)
      THEN ~stack_op.ok /\ stack = stack_op.before
      ELSE /\ stack_op.ok
           /\ stack = SubSeq(stack_op.before, 1, Len(stack_op.before) - stack_op.n)

(***************************************************************************)
(* C11: building and taking apart a control byte are inverse.  The byte    *)
(* built from a length in 0..31 and an opcode has that length as its len() *)
(* and that opcode as its instr(); and every byte 0..255 is rebuilt by     *)
(* from_len_instr from its own len_u8() and instr().                       *)
(***************************************************************************)
C11_RoundTrip ==
    /\ codec.name = "from_len_instr" =>
         /\ codec.byte \in 0..U8Max
         /\ len(codec.byte) = codec.len_in
         /\ instr(codec.byte) = codec.instr_in
    /\ codec.name = "from" =>
         from_len_instr(codec.len_u8, codec.instr) = codec.byte

\* a byte with both fields non-zero has been built, or taken apart
C11_Witness ==
    \/ codec.name = "from_len_instr" /\ codec.len_in = LenMax
         /\ codec.instr_in = "Z_IsWordHasChildrenIsLast"
    \/ codec.name = "from" /\ codec.byte = U8Max

\* bit k of the byte b
Bit(b, k) == (b \div (2 ^ k)) % 2

(***************************************************************************)
(* C12: decoding is total and follows the bit table.  For every byte       *)
(* 0..255, is_word() is bit 2, has_children() is bit 1, is_last() is bit   *)
(* 0, len() is bits 3-7 as a number in 0..31, and the opcode match does    *)
(* not reach its unreachable!() arm.                                       *)
(***************************************************************************)
C12_BitTable ==
    codec.name = "from" =>
      /\ codec.is_word = (Bit(codec.byte, 2) = 1)
      /\ codec.has_children = (Bit(codec.byte, 1) = 1)
      /\ codec.is_last = (Bit(codec.byte, 0) = 1)
      /\ codec.len \in 0..LenMax
      /\ codec.len = Bit(codec.byte, 3) + 2 * Bit(codec.byte, 4)
                     + 4 * Bit(codec.byte, 5) + 8 * Bit(codec.byte, 6)
                     + 16 * Bit(codec.byte, 7)
      /\ codec.len_u8 = codec.len
      /\ codec.instr \in Instructions

\* a byte with a length above the opcode range and mixed flags is taken apart
C12_Witness ==
    /\ codec.name = "from"
    /\ codec.byte = 174
    /\ codec.is_word /\ codec.has_children /\ ~codec.is_last
    /\ codec.len = 21

\* the control bytes of the nodes of a path, top level first
Ctl(path) == [j \in 1..Len(path) |-> path[j].instr]

\* the index after the payload of the last node of a path
EndOf(path) ==
    path[Len(path)].at + 2 + len(path[Len(path)].instr)

\* the last next_word call returned a word
ReturnedWord == exits # <<>> /\ exits[Len(exits)] = "word"

\* the word-terminating nodes of the trie that the last call emitted: the
\* call returned the node's word and left the cursor after its payload
Emitted ==
    {e \in 1..Len(trie.paths) :
        /\ ReturnedWord
        /\ EndOf(trie.paths[e]) = program_ctr
        /\ rets[Len(rets)] = Some(trie.entries[e].word)}

\* After a call that returned a word the control stack is the path to the
\* node it emitted; and a non-empty control stack is always that, with a
\* word-terminating top.
PathOnStack ==
    /\ ReturnedWord =>
         \E e \in Emitted : control_stack = Ctl(trie.paths[e])
    /\ control_stack # <<>> =>
         /\ \E e \in Emitted : control_stack = Ctl(trie.paths[e])
         /\ is_word(control_stack[Len(control_stack)])

(***************************************************************************)
(* C13, as stated: for every well-formed program, after each call that     *)
(* returned a word the control stack is the root-to-leaf path to the node  *)
(* just emitted, and whenever the control stack is non-empty when a call   *)
(* starts, its top is the node the previous call emitted and terminates a  *)
(* word.                                                                   *)
(***************************************************************************)
C13_AsStated == (trie.wf /\ ~panicked) => PathOnStack

(***************************************************************************)
(* C13, amended: the same for every well-formed program whose words are    *)
(* all valid UTF-8; the node emitted by the k-th call is then the k-th     *)
(* word-terminating node in pre-order.                                     *)
(***************************************************************************)
C13_Path ==
    (trie.wf /\ trie.text) =>
      /\ PathOnStack
      /\ Emitted \subseteq {Len(rets)}

\* a word three levels down has been emitted after a backtrack
C13_Witness ==
    /\ trie.wf /\ trie.text
    /\ ReturnedWord
    /\ Len(rets) >= 3
    /\ Len(control_stack) >= 3
    /\ control_stack = Ctl(trie.paths[Len(rets)])

\* the payload bytes in the program of a node of a path
PayloadOf(n) ==
    LET from == n.at + 1 + (IF is_word(n.instr) THEN 1 ELSE 0)
    IN  SubSeq(program, from + 1, from + len(n.instr))

RECURSIVE Payloads(_, _)
\* the payloads of the first j nodes of a path, concatenated top level first
Payloads(path, j) ==
    IF j = 0 THEN <<>> ELSE Payloads(path, j - 1) \o PayloadOf(path[j])

RECURSIVE SumLen(_, _)
\* the sum of the payload lengths of the first j entries of a control stack
SumLen(cs, j) == IF j = 0 THEN 0 ELSE SumLen(cs, j - 1) + len(cs[j])

\* the word-terminating nodes of the trie whose path the control stack holds,
\* with the cursor after the node's payload
OnStack ==
    {e \in 1..Len(trie.paths) :
        /\ EndOf(trie.paths[e]) = program_ctr
        /\ control_stack = Ctl(trie.paths[e])}

(***************************************************************************)
(* C14: for every well-formed program, between next_word calls the word    *)
(* stack is, byte for byte, the payloads of the nodes on the control       *)
(* stack concatenated bottom to top; so a returned word is as long as the  *)
(* payload lengths of the control-stack entries add up to.                 *)
(***************************************************************************)
C14_PrefixIsPayloads ==
    trie.wf =>
      /\ control_stack = <<>> => word_stack = <<>>
      /\ control_stack # <<>> =>
           \E e \in OnStack :
              word_stack = Payloads(trie.paths[e], Len(trie.paths[e]))
      /\ Len(word_stack) = SumLen(control_stack, Len(control_stack))
      /\ ReturnedWord =>
           /\ rets[Len(rets)].word = word_stack
           /\ Len(rets[Len(rets)].word) = SumLen(control_stack, Len(control_stack))

\* after a backtrack, a word made of the payloads of two nodes was returned
C14_Witness ==
    /\ trie.wf
    /\ ReturnedWord
    /\ Len(rets) >= 3
    /\ \E i, j \in 1..Len(control_stack) :
          i < j /\ len(control_stack[i]) >= 1 /\ len(control_stack[j]) >= 1
    /\ Len(rets[Len(rets)].word) = SumLen(control_stack, Len(control_stack))
    /\ word_stack # rets[Len(rets) - 1].word

RECURSIVE PrioAddrs(_, _)
\* the indices of the priority bytes of the word-terminating nodes among the
\* first j nodes of a path, top level first
PrioAddrs(path, j) ==
    IF j = 0 THEN <<>>
    ELSE PrioAddrs(path, j - 1)
         \o (IF is_word(path[j].instr) THEN <<path[j].at + 1>> ELSE <<>>)

(***************************************************************************)
(* C15: for every well-formed program, between next_word calls the         *)
(* priority-address stack has one entry per control-stack entry that       *)
(* terminates a word, in the same order, and each entry is the index after *)
(* that node's control byte, a valid index into the program.               *)
(***************************************************************************)
C15_PrioAddrs ==
    trie.wf =>
      /\ control_stack = <<>> => prio_addr_stack = <<>>
      /\ control_stack # <<>> =>
           \E e \in OnStack :
              prio_addr_stack = PrioAddrs(trie.paths[e], Len(trie.paths[e]))
      /\ Len(prio_addr_stack)
           = Cardinality({j \in 1..Len(control_stack) : is_word(control_stack[j])})
      /\ \A k \in 1..Len(prio_addr_stack) :
           /\ prio_addr_stack[k] >= 1
           /\ prio_addr_stack[k] < Len(program)
           /\ is_word(program[prio_addr_stack[k]])

\* after a backtrack the control stack holds word nodes and a node that is
\* none, and the priority-address stack holds two addresses
C15_Witness ==
    /\ trie.wf
    /\ Len(rets) >= 3
    /\ Len(prio_addr_stack) >= 2
    /\ Len(prio_addr_stack) < Len(control_stack)
    /\ \A k \in 1..Len(prio_addr_stack) : is_word(program[prio_addr_stack[k]])

\* this step is a next_word call
IsCall == Len(exits') = Len(exits) + 1

\* the top of the control stack has children
TopHasChildren ==
    control_stack # <<>> /\ has_children(control_stack[Len(control_stack)])

TopIsLeaf ==
    control_stack # <<>> /\ ~has_children(control_stack[Len(control_stack)])

RECURSIVE LastRun(_, _)
\* how many of the first n entries of a control stack, counted from the n-th
\* downwards, are consecutive is-last entries
LastRun(cs, n) ==
    IF n = 0 THEN 0
    ELSE IF is_last(cs[n]) THEN 1 + LastRun(cs, n - 1)
    ELSE 0

\* The entries the backtrack step is to remove from a control stack whose top
\* is a leaf.  count: how many, from the top; eos: the stack empties before
\* a non-last entry is found.
Removal(cs) ==
    IF ~is_last(cs[Len(cs)]) THEN [count |-> 1, eos |-> FALSE]
    ELSE IF LastRun(cs, Len(cs)) = Len(cs) THEN [count |-> Len(cs), eos |-> TRUE]
    ELSE [count |-> LastRun(cs, Len(cs)) + 1, eos |-> FALSE]

\* the backtrack step of this call removed exactly Removal(control_stack),
\* with the payload bytes and priority addresses of the removed entries, did
\* not move the cursor, and the call went on from there
BacktrackRemoves ==
    LET r    == Removal(control_stack)
        keep == Len(control_stack) - r.count
        gone == SumLen(control_stack, Len(control_stack)) - SumLen(control_stack, keep)
        goneaddrs == Cardinality({j \in (keep + 1)..Len(control_stack) :
                                     is_word(control_stack[j])})
        b    == backtrack(Vm)
    IN  /\ b.exit # "panic_unwrap"
        /\ exits'[Len(exits')] # "panic_unwrap"
        /\ b.vm.control_stack = SubSeq(control_stack, 1, keep)
        /\ gone <= Len(word_stack)
        /\ b.vm.word_stack = SubSeq(word_stack, 1, Len(word_stack) - gone)
        /\ goneaddrs <= Len(prio_addr_stack)
        /\ b.vm.prio_addr_stack
             = SubSeq(prio_addr_stack, 1, Len(prio_addr_stack) - goneaddrs)
        /\ b.vm.program_ctr = program_ctr
        /\ (b.exit = "backtrack_empty") = r.eos
        /\ r.eos =>
             /\ Vm' = b.vm
             /\ exits'[Len(exits')] = "backtrack_empty"
             /\ rets' = Append(rets, None)
        /\ ~r.eos =>
             /\ IsPrefixOf(b.vm.control_stack, control_stack')
             /\ IsPrefixOf(b.vm.word_stack, word_stack')
             /\ IsPrefixOf(b.vm.prio_addr_stack, prio_addr_stack')
             /\ IF Len(control_stack') > keep
                THEN /\ program_ctr < Len(program)
                     /\ control_stack'[keep + 1] = program[program_ctr + 1]
                ELSE program_ctr' = program_ctr

(***************************************************************************)
(* C17: a next_word call made while the top of the control stack has no    *)
(* children removes from the control stack exactly the top if it is not a  *)
(* last sibling; otherwise the top, every consecutive is-last entry under  *)
(* it, and one further entry (or reports end-of-sequence if the stack      *)
(* empties first).  Each removed entry takes its payload length off the    *)
(* word stack and, if and only if it terminates a word, one entry off the  *)
(* priority-address stack; the backtrack step does not move the cursor.    *)
(***************************************************************************)
C17_BacktrackRemoves ==
    [][(IsCall /\ TopIsLeaf) => BacktrackRemoves]_vars

\* this step is the first next_word call since construction or reset that
\* returns None
IsFirstNone ==
    /\ IsCall
    /\ ~SawNone(rets)
    /\ Len(rets') = Len(rets) + 1
    /\ ~rets'[Len(rets')].some

\* the cursor over one next_word call: it does not go back, a call that
\* returns a word moves it on by two or more, and, under the condition wf on
\* the program, it stays within the program and is at its end, with the three
\* stacks empty, when None is first returned
CursorMoves(wf) ==
    IsCall =>
      /\ program_ctr' >= program_ctr
      /\ ReturnedWord' => program_ctr' >= program_ctr + 2
      /\ wf =>
           /\ program_ctr' <= Len(program)
           /\ IsFirstNone =>
                /\ program_ctr' = Len(program)
                /\ control_stack' = <<>>
                /\ word_stack' = <<>>
                /\ prio_addr_stack' = <<>>

(***************************************************************************)
(* C18, as stated: between resets the cursor never decreases; every call   *)
(* that returns a word increases it by at least 2; and for every           *)
(* well-formed program the cursor never exceeds the program length and     *)
(* equals it, with all three stacks empty, when end-of-sequence is first   *)
(* reported.                                                               *)
(***************************************************************************)
C18_AsStated == [][CursorMoves(trie.wf)]_vars

(***************************************************************************)
(* C18, amended: the same, the last part for every well-formed program     *)
(* whose words are all valid UTF-8.                                        *)
(***************************************************************************)
C18_Cursor == [][CursorMoves(trie.wf /\ trie.text)]_vars

\* the walk of a well-formed program with three words or more has just
\* ended: the first None, the cursor at the end, the stacks empty
C18_Witness ==
    /\ trie.wf /\ trie.text
    /\ Len(trie.words) >= 3
    /\ SawNone(rets) /\ FirstNone(rets) = Len(rets)
    /\ program_ctr = Len(program)
    /\ program_ctr >= 2 * (Len(rets) - 1)
    /\ control_stack = <<>> /\ word_stack = <<>> /\ prio_addr_stack = <<>>

(***************************************************************************)
(* C19: for every program (well-formed or not, truncated, with opcodes     *)
(* 000/001) whose words are valid text, no next_word call from the initial *)
(* state up to and including the first that returns None panics: until     *)
(* then the unwrap() calls of pop_cstack never meet an empty or too short  *)
(* stack, because the word stack holds exactly the payload lengths of the  *)
(* control stack and the priority-address stack one entry per word entry.  *)
(***************************************************************************)
C19_NoUnwrapPanic ==
    /\ \A k \in 1..Len(exits) : exits[k] = "panic_unwrap" => SawNone(rets)
    /\ ~SawNone(rets) =>
         /\ Len(word_stack) = SumLen(control_stack, Len(control_stack))
         /\ Len(prio_addr_stack)
              = Cardinality({j \in 1..Len(control_stack) : is_word(control_stack[j])})

\* a program that is not well-formed has been walked, with entries popped
\* on the way and no panic, up to its first None
C19_Witness ==
    /\ ~trie.wf
    /\ ~panicked
    /\ SawNone(rets) /\ FirstNone(rets) = Len(rets)
    /\ Len(rets) >= 3
    /\ exits[Len(exits)] \in {"payload_none", "fetch_none", "backtrack_empty"}
    /\ \A k \in 1..Len(exits) : exits[k] # "utf8_err"

\* the 1-based positions of the priority bytes of a well-formed program
PrioIndexes ==
    {trie.paths[e][Len(trie.paths[e])].at + 2 : e \in 1..Len(trie.paths)}

\* the values a priority byte is replaced by
PrioValues == {0, 1, 255}

\* the program p with the value prio at every position of idx
WithPrio(p, idx, prio) == [i \in 1..Len(p) |-> IF i \in idx THEN prio ELSE p[i]]

\* programs equal to the program except at priority bytes: one priority
\* byte replaced, or all of them
PrioVariants ==
    {WithPrio(program, idx, prio) :
        idx \in {PrioIndexes} \cup {{i} : i \in PrioIndexes}, prio \in PrioValues}

(***************************************************************************)
(* C20: the traversal never reads the value of a priority byte.  From      *)
(* every state the walk of a well-formed program reaches, a next_word call *)
(* over a program that differs from it only in priority bytes has the same *)
(* outcomes: the same result and the same control stack, word stack,       *)
(* priority-address stack and cursor after the call.  The two walks start  *)
(* from the same state, so they agree call for call.                       *)
(***************************************************************************)
C20_PrioNotRead ==
    trie.wf =>
      \A q \in PrioVariants :
         next_word_outcomes(Vm, q) = next_word_outcomes(Vm, program)

\* the walk of a well-formed program with three words or more has returned
\* a word, popped entries and returned another, and programs that differ
\* from it in a priority byte exist
C20_Witness ==
    /\ trie.wf
    /\ Len(trie.paths) >= 3
    /\ ReturnedWord
    /\ Len(rets) >= 3
    /\ Len(control_stack) < Len(rets)
    /\ \E q \in PrioVariants :
          /\ q # program
          /\ \E i \in PrioIndexes : q[i] # program[i]
          /\ \A i \in (1..Len(program)) \ PrioIndexes : q[i] = program[i]

====
